---- MODULE Spec2Model ----
(***************************************************************************)
(* A model of mjcf-parser: the geom tag resolver (tags/geom.rs,            *)
(* parse_geom_node), the document traversal (mjcf_model.rs,                *)
(* MJCFModel::parse_xml_string / parse_worldbody / parse_geom), the        *)
(* entry point of the crate root (lib.rs, MJCFModel::parse_xml_string)     *)
(* and the process-wide root logger (log.rs, LOG / set_root_logger).       *)
(*                                                                         *)
(* Numbers.  A real number is a fixed-point integer counting halves: the   *)
(* text "1" is the value 2, "2" is 4, and x * 0.5 and x / 2.0 are x \div 2.*)
(* All inputs are whole numbers, so midpoints are exact; a square root is  *)
(* rounded down to the nearest half.                                       *)
(*                                                                         *)
(* Text.  The text of a numeric attribute is a sequence of one-character   *)
(* strings; it is split on whitespace and every token is converted.        *)
(*                                                                         *)
(* Options and results.  None is the empty sequence and Some(x) is <<x>>;  *)
(* a Result is a record with ok = TRUE and val, or ok = FALSE and err.     *)
(*                                                                         *)
(* Specifications.  Spec follows one call, of parse_geom_node or of a      *)
(* parse_xml_string, on its own.  ConcSpec follows one call of             *)
(* parse_xml_string while other threads call parse_xml_string and          *)
(* set_root_logger; the threads meet at the lock of log::LOG only.         *)
(***************************************************************************)
EXTENDS Integers, Sequences, FiniteSets

VARIABLES
    call,        \* which entry point runs: "parse_geom_node", "parse_xml_string"
                 \* (mjcf_model.rs) or "lib_parse_xml_string" (lib.rs)
    pc,          \* the position of the running call
    node,        \* parse_geom_node's argument geom_node
    doc,         \* parse_xml_string's argument text, as roxmltree reads it
    ri,          \* index of the root child the loop of parse_xml_string is at
    ci,          \* index of the worldbody child the loop of parse_worldbody is at
    mjcf_model,  \* the MJCFModel under construction
    names,       \* the local `name` of each parse_geom call so far, with its scene
    log,         \* the records handed to the logger so far
    result,      \* the value the call returned, None while it runs
    LOG,         \* log::LOG: the root logger behind its RwLock
    logger,      \* the local `logger` of parse_xml_string, None until it is taken
    peers        \* the calls of other threads: their operation and position

vars == <<call, pc, node, doc, ri, ci, mjcf_model, names, log, result, LOG, logger,
          peers>>

----------------------------------------------------------------------------
(* Option and Result *)

None == <<>>

Some(x) == <<x>>

IsSome(o) == Len(o) = 1

Unwrap(o) == o[1]

Ok(v) == [ok |-> TRUE, val |-> v]

Err(e) == [ok |-> FALSE, err |-> e]

----------------------------------------------------------------------------
(* Bounds of the explored inputs *)

\* the longest run of tokens appended to a numeric attribute text
MaxExtraTokens == 1

\* how many orientation attributes one explored geom carries at most
MaxOrient == 2

\* how many unsupported attributes one explored geom carries at most
MaxUnsupported == 1

\* how many children the explored worldbody has at most
MaxChildren == 2

\* the calls other threads make while the followed call runs
MaxPeers == 2

----------------------------------------------------------------------------
(* Text of numeric attributes: str::split_whitespace and FromStr *)

Digits == <<"0", "1", "2", "3", "4", "5", "6", "7", "8", "9">>

IsDigit(c) == \E d \in 1..10 : Digits[d] = c

DigitVal(c) == (CHOOSE d \in 1..10 : Digits[d] = c) - 1

IsSpace(c) == c \in {" ", "\t", "\n"}

RECURSIVE SplitFrom(_, _, _)
\* tokens of text from position i on, cur being the token read so far
SplitFrom(text, i, cur) ==
    IF i > Len(text)
    THEN IF cur = <<>> THEN <<>> ELSE <<cur>>
    ELSE IF IsSpace(text[i])
         THEN IF cur = <<>>
              THEN SplitFrom(text, i + 1, <<>>)
              ELSE <<cur>> \o SplitFrom(text, i + 1, <<>>)
         ELSE SplitFrom(text, i + 1, Append(cur, text[i]))

split_whitespace(text) == SplitFrom(text, 1, <<>>)

RECURSIVE DigitsValue(_, _)
\* the whole number the digit string ds denotes, acc being the value so far
DigitsValue(ds, acc) ==
    IF ds = <<>> THEN acc
    ELSE DigitsValue(Tail(ds), 10 * acc + DigitVal(Head(ds)))

\* N::from_str over the alphabet of sign and digits: Some(value in halves)
from_str(tok) ==
    LET neg  == tok # <<>> /\ Head(tok) = "-"
        body == IF tok # <<>> /\ Head(tok) \in {"-", "+"} THEN Tail(tok) ELSE tok
    IN IF body # <<>> /\ \A k \in 1..Len(body) : IsDigit(body[k])
       THEN Some((IF neg THEN -2 ELSE 2) * DigitsValue(body, 0))
       ELSE None

\* attributes::parse_real_vector_attribute::<N, K>
parse_real_vector_attribute(text, K) ==
    LET toks == split_whitespace(text)
        bad  == {k \in 1..Len(toks) : ~IsSome(from_str(toks[k]))}
    IN IF bad # {}
       THEN LET p == CHOOSE k \in bad : \A m \in bad : k <= m
            IN Err([kind |-> "ValueParseFailure", token |-> toks[p], position |-> p - 1])
       ELSE IF Len(toks) < K THEN Err([kind |-> "TooFewValues"])
       ELSE IF Len(toks) > K THEN Err([kind |-> "TooManyValues"])
       ELSE Ok([k \in 1..K |-> Unwrap(from_str(toks[k]))])

----------------------------------------------------------------------------
(* An XML element's attributes: a function from attribute name to Option *)

OrientAttrs == <<"quat", "axisangle", "euler", "xyaxes", "zaxis">>

\* the attributes parse_geom_node audits, in the order of its checks
GeomNodeUnsupported ==
    <<"class", "contype", "conaffinity", "condim", "group", "priority",
      "material", "rgba", "friction", "mass", "density", "solmix", "solref",
      "solimpl", "margin", "gap", "hfield", "mesh", "fitscale">>

\* the attributes MJCFModel::parse_geom audits after the type, in order
ModelGeomUnsupported ==
    <<"contype", "conaffinity", "condim", "group", "priority", "material",
      "rgba", "friction", "mass", "density", "solmix", "solref", "solimpl",
      "margin", "gap", "fromto", "pos", "quat", "axisangle", "xyaxes",
      "zaxis", "euler", "hfield", "mesh", "fitscale">>

Range(s) == {s[k] : k \in 1..Len(s)}

AttrNames ==
    {"type", "name", "size", "pos", "fromto"}
        \cup Range(OrientAttrs) \cup Range(GeomNodeUnsupported)

attribute(n, a) == n[a]

has_attribute(n, a) == IsSome(n[a])

----------------------------------------------------------------------------
(* Diagnostics: one record per debug!/warn! call *)

Debug(msg) == [level |-> "debug", msg |-> msg, key |-> ""]

Warn(msg, key) == [level |-> "warn", msg |-> msg, key |-> key]

----------------------------------------------------------------------------
(* Orientation resolver (attributes::parse_orientation_attribute) *)

OrientArity(a) ==
    CASE a = "quat" -> 4
      [] a = "axisangle" -> 4
      [] a = "euler" -> 3
      [] a = "xyaxes" -> 6
      [] a = "zaxis" -> 3

IsZero3(v, o) == v[o + 1] = 0 /\ v[o + 2] = 0 /\ v[o + 3] = 0

Cross(v) ==
    <<v[2] * v[6] - v[3] * v[5], v[3] * v[4] - v[1] * v[6], v[1] * v[5] - v[2] * v[4]>>

\* the payload of orientation attribute a cannot be made a rotation
Degenerate(a, v) ==
    CASE a = "quat" -> \A k \in 1..4 : v[k] = 0
      [] a = "axisangle" -> IsZero3(v, 0)
      [] a = "euler" -> FALSE
      [] a = "xyaxes" -> IsZero3(Cross(v), 0)
      [] a = "zaxis" -> IsZero3(v, 0)

\* the payload of orientation attribute a is the rotation by nothing
IsIdentity(a, v) ==
    CASE a = "quat" -> v[1] # 0 /\ IsZero3(v, 1)
      [] a = "axisangle" -> v[4] = 0
      [] a = "euler" -> IsZero3(v, 0)
      [] a = "xyaxes" -> v[1] > 0 /\ v[2] = 0 /\ v[3] = 0 /\ v[4] = 0 /\ v[5] > 0 /\ v[6] = 0
      [] a = "zaxis" -> v[1] = 0 /\ v[2] = 0 /\ v[3] > 0

IdentityQuaternion == [repr |-> "identity", v |-> <<>>]

parse_orientation_attribute(n, segment_like) ==
    LET present == {k \in 1..Len(OrientAttrs) : has_attribute(n, OrientAttrs[k])}
    IN IF Cardinality(present) > 1 THEN Err([kind |-> "MultipleOrientations"])
       ELSE IF present = {} THEN Ok(IdentityQuaternion)
       ELSE LET a == OrientAttrs[CHOOSE k \in present : TRUE]
                r == parse_real_vector_attribute(Unwrap(attribute(n, a)), OrientArity(a))
            IN IF ~r.ok THEN Err([kind |-> "AttributeVectorError", attr |-> a, cause |-> r.err])
               ELSE IF Degenerate(a, r.val) THEN Err([kind |-> "DegenerateOrientation", attr |-> a])
               ELSE IF IsIdentity(a, r.val) THEN Ok(IdentityQuaternion)
               ELSE Ok([repr |-> a, v |-> r.val])

----------------------------------------------------------------------------
(* tags/geom.rs: GeomError and parse_geom_node *)

InvalidType(t) == [kind |-> "InvalidType", geom_type |-> t]

UnsupportedType(t) == [kind |-> "UnsupportedType", geom_type |-> t]

RequiredAttributeMissing(a) == [kind |-> "RequiredAttributeMissing", attr |-> a]

BadRealAttribute(e) == [kind |-> "BadRealAttribute", cause |-> e]

BadOrientation(e) == [kind |-> "BadOrientation", cause |-> e]

MultiplePositions == [kind |-> "MultiplePositions"]

\* the largest r with r * r <= x
ISqrt(x) == CHOOSE r \in 0..x : r * r <= x /\ (r + 1) * (r + 1) > x

\* metric_distance of the points fromto[1..3] and fromto[4..6]
metric_distance(f) ==
    ISqrt((f[1] - f[4]) * (f[1] - f[4]) + (f[2] - f[5]) * (f[2] - f[5])
            + (f[3] - f[6]) * (f[3] - f[6]))

\* the warnings of the plane arm of the shape match
PlaneWarnings(n) ==
    IF attribute(n, "type") = Some("plane")
    THEN <<Warn("Size currently ignored", "plane"),
           Warn("Orientation currently ignored", "plane")>>
    ELSE <<>>

\* BallShape with the sign of the radius dropped
BallShape_Abs(n) ==
    IF ~has_attribute(n, "size") THEN Err(RequiredAttributeMissing("size"))
    ELSE LET sizes == parse_real_vector_attribute(Unwrap(attribute(n, "size")), 1)
         IN IF ~sizes.ok THEN Err(BadRealAttribute(sizes.err))
            ELSE Ok([shape |-> "Ball",
                     radius |-> IF sizes.val[1] < 0 THEN -sizes.val[1] ELSE sizes.val[1]])

\* BallShape reading the first token of size and dropping the others
BallShape_FirstToken(n) ==
    IF ~has_attribute(n, "size") THEN Err(RequiredAttributeMissing("size"))
    ELSE LET toks  == split_whitespace(Unwrap(attribute(n, "size")))
             sizes == parse_real_vector_attribute(IF toks = <<>> THEN <<>> ELSE toks[1], 1)
         IN IF ~sizes.ok THEN Err(BadRealAttribute(sizes.err))
            ELSE Ok([shape |-> "Ball", radius |-> sizes.val[1]])

\* size of a sphere: one value
BallShape(n) ==
    IF ~has_attribute(n, "size") THEN Err(RequiredAttributeMissing("size"))
    ELSE LET sizes == parse_real_vector_attribute(Unwrap(attribute(n, "size")), 1)
         IN IF ~sizes.ok THEN Err(BadRealAttribute(sizes.err))
            ELSE Ok([shape |-> "Ball", radius |-> sizes.val[1]])

\* CapsuleShape taking the whole length of fromto for the half length
CapsuleShape_NoHalving(n) ==
    IF ~has_attribute(n, "size") THEN Err(RequiredAttributeMissing("size"))
    ELSE IF has_attribute(n, "fromto")
    THEN LET sizes == parse_real_vector_attribute(Unwrap(attribute(n, "size")), 1)
         IN IF ~sizes.ok THEN Err(BadRealAttribute(sizes.err))
            ELSE LET fromto == parse_real_vector_attribute(Unwrap(attribute(n, "fromto")), 6)
                 IN IF ~fromto.ok THEN Err(BadRealAttribute(fromto.err))
                    ELSE Ok([shape |-> "Capsule",
                             half_length |-> metric_distance(fromto.val),
                             radius |-> sizes.val[1]])
    ELSE LET sizes == parse_real_vector_attribute(Unwrap(attribute(n, "size")), 2)
         IN IF ~sizes.ok THEN Err(BadRealAttribute(sizes.err))
            ELSE Ok([shape |-> "Capsule", half_length |-> sizes.val[2],
                     radius |-> sizes.val[1]])

\* size of a capsule: the radius alone beside fromto, radius and half length without
CapsuleShape(n) ==
    IF ~has_attribute(n, "size") THEN Err(RequiredAttributeMissing("size"))
    ELSE IF has_attribute(n, "fromto")
    THEN LET sizes == parse_real_vector_attribute(Unwrap(attribute(n, "size")), 1)
         IN IF ~sizes.ok THEN Err(BadRealAttribute(sizes.err))
            ELSE LET fromto == parse_real_vector_attribute(Unwrap(attribute(n, "fromto")), 6)
                 IN IF ~fromto.ok THEN Err(BadRealAttribute(fromto.err))
                    ELSE Ok([shape |-> "Capsule",
                             half_length |-> metric_distance(fromto.val) \div 2,
                             radius |-> sizes.val[1]])
    ELSE LET sizes == parse_real_vector_attribute(Unwrap(attribute(n, "size")), 2)
         IN IF ~sizes.ok THEN Err(BadRealAttribute(sizes.err))
            ELSE Ok([shape |-> "Capsule", half_length |-> sizes.val[2],
                     radius |-> sizes.val[1]])

\* size of a box: the three half extents
CuboidShape(n) ==
    IF ~has_attribute(n, "size") THEN Err(RequiredAttributeMissing("size"))
    ELSE LET sizes == parse_real_vector_attribute(Unwrap(attribute(n, "size")), 3)
         IN IF ~sizes.ok THEN Err(BadRealAttribute(sizes.err))
            ELSE Ok([shape |-> "Cuboid", half_extents |-> sizes.val])

\* the match on "type" that builds the shape
shape_handle(n) ==
    LET t == attribute(n, "type")
    IN CASE t = Some("plane") -> Ok([shape |-> "Plane", normal |-> <<0, 0, 2>>])
         [] t = Some("hfield") -> Err(UnsupportedType("hfield"))
         [] t = Some("sphere") \/ t = None -> BallShape(n)
         [] t = Some("capsule") -> CapsuleShape(n)
         [] t = Some("ellipsoid") -> Err(UnsupportedType("ellipsoid"))
         [] t = Some("cylinder") -> Err(UnsupportedType("cylinder"))
         [] t = Some("box") -> CuboidShape(n)
         [] t = Some("mesh") -> Err(UnsupportedType("mesh"))
         [] OTHER -> Err(InvalidType(Unwrap(t)))

Origin == <<0, 0, 0>>

\* translation from "pos", the origin when absent
PosTranslation(n) ==
    IF ~has_attribute(n, "pos") THEN Ok(Origin)
    ELSE LET pos == parse_real_vector_attribute(Unwrap(attribute(n, "pos")), 3)
         IN IF ~pos.ok THEN Err(BadRealAttribute(pos.err)) ELSE Ok(pos.val)

\* SegmentTranslation letting fromto win over pos instead of rejecting both
SegmentTranslation_FromtoWins(n) ==
    IF has_attribute(n, "fromto")
    THEN LET fromto == parse_real_vector_attribute(Unwrap(attribute(n, "fromto")), 6)
         IN IF ~fromto.ok THEN Err(BadRealAttribute(fromto.err))
            ELSE Ok([k \in 1..3 |->
                       fromto.val[k] + (fromto.val[k + 3] - fromto.val[k]) \div 2])
    ELSE PosTranslation(n)

\* translation of a capsule or box: the middle of fromto, else "pos"
SegmentTranslation(n) ==
    IF has_attribute(n, "fromto")
    THEN IF has_attribute(n, "pos") THEN Err(MultiplePositions)
         ELSE LET fromto == parse_real_vector_attribute(Unwrap(attribute(n, "fromto")), 6)
              IN IF ~fromto.ok THEN Err(BadRealAttribute(fromto.err))
                 ELSE Ok([k \in 1..3 |->
                            fromto.val[k] + (fromto.val[k + 3] - fromto.val[k]) \div 2])
    ELSE PosTranslation(n)

\* the match on "type" that resolves the translation
translation(n) ==
    LET t == attribute(n, "type")
    IN CASE t = Some("plane") \/ t = Some("sphere") \/ t = None -> PosTranslation(n)
         [] t = Some("capsule") \/ t = Some("box") -> SegmentTranslation(n)
         [] OTHER -> Err(InvalidType(Unwrap(t)))

\* orientation with the plane arm returning the identity unresolved
orientation_PlaneIgnores(n) ==
    LET t == attribute(n, "type")
        wrap(r) == IF r.ok THEN r ELSE Err(BadOrientation(r.err))
    IN CASE t = Some("plane") -> Ok(IdentityQuaternion)
         [] t = Some("sphere") \/ t = None -> wrap(parse_orientation_attribute(n, FALSE))
         [] t = Some("capsule") -> wrap(parse_orientation_attribute(n, TRUE))
         [] t = Some("box") -> wrap(parse_orientation_attribute(n, TRUE))
         [] OTHER -> Err(InvalidType(Unwrap(t)))

\* the match on "type" that resolves the orientation
orientation(n) ==
    LET t == attribute(n, "type")
        wrap(r) == IF r.ok THEN r ELSE Err(BadOrientation(r.err))
    IN CASE t = Some("plane") -> wrap(parse_orientation_attribute(n, FALSE))
         [] t = Some("sphere") \/ t = None -> wrap(parse_orientation_attribute(n, FALSE))
         [] t = Some("capsule") -> wrap(parse_orientation_attribute(n, TRUE))
         [] t = Some("box") -> wrap(parse_orientation_attribute(n, TRUE))
         [] OTHER -> Err(InvalidType(Unwrap(t)))

RECURSIVE WarnPresent(_, _, _)
\* one warning for each attribute of the list attrs, from index k on, that n has
WarnPresent(n, attrs, k) ==
    IF k > Len(attrs) THEN <<>>
    ELSE (IF has_attribute(n, attrs[k])
          THEN <<Warn("attribute is currently unsupported", attrs[k])>>
          ELSE <<>>) \o WarnPresent(n, attrs, k + 1)

\* unsupported_warnings with the last check of the chain left out
unsupported_warnings_NoFitscale(n) ==
    WarnPresent(n, SubSeq(GeomNodeUnsupported, 1, Len(GeomNodeUnsupported) - 1), 1)

\* the chain of has_attribute checks that ends parse_geom_node
unsupported_warnings(n) == WarnPresent(n, GeomNodeUnsupported, 1)

\* parse_geom_node: the returned Result and the records logged
parse_geom_node(n) ==
    LET log0 == <<Debug("Parsing geom tag")>> \o PlaneWarnings(n)
        sh   == shape_handle(n)
        tr   == translation(n)
        orr  == orientation(n)
    IN IF ~sh.ok THEN [res |-> sh, log |-> log0]
       ELSE IF ~tr.ok THEN [res |-> tr, log |-> log0]
       ELSE IF ~orr.ok THEN [res |-> orr, log |-> log0]
       ELSE [res |-> Ok([shape |-> sh.val, name |-> attribute(n, "name"),
                         translation |-> tr.val, orientation |-> orr.val]),
             log |-> log0 \o unsupported_warnings(n)]

----------------------------------------------------------------------------
(* The explored geom elements *)

RECURSIVE Join(_)
\* the text of the tokens toks separated by one space
Join(toks) ==
    IF toks = <<>> THEN <<>>
    ELSE IF Len(toks) = 1 THEN Head(toks)
    ELSE Head(toks) \o <<" ">> \o Join(Tail(toks))

Ones(k) == [m \in 1..k |-> <<"1">>]

\* the texts of the token lists base, also with up to MaxExtraTokens tokens appended
Texts(base) == {Join(b \o Ones(k)) : b \in base, k \in 0..MaxExtraTokens}

SizeBase ==
    {<<>>,
     <<<<"1">>>>, <<<<"2">>>>, <<<<"0">>>>, <<<<"-", "1">>>>, <<<<"x">>>>,
     <<<<"1">>, <<"2">>>>, <<<<"1">>, <<"0">>>>, <<<<"-", "1">>, <<"1">>>>,
     <<<<"1">>, <<"x">>>>,
     <<<<"1">>, <<"2">>, <<"2">>>>, <<<<"1">>, <<"0">>, <<"2">>>>,
     <<<<"1">>, <<"-", "1">>, <<"1">>>>, <<<<"x">>, <<"1">>, <<"1">>>>}

SizeTexts == Texts(SizeBase) \cup {<<" ", "1", "2", " ", " ">>}

SizeFew == {None, Some(<<"1">>), Some(<<"1", " ", "2">>), Some(<<"1", " ", "2", " ", "2">>)}

PosBase ==
    {<<<<"1">>, <<"2">>>>, <<<<"0">>, <<"0">>, <<"0">>>>,
     <<<<"1">>, <<"-", "2">>, <<"0">>>>, <<<<"1">>, <<"x">>, <<"0">>>>}

PosTexts == Texts(PosBase)

PosFew == {None, Some(Join(<<<<"1">>, <<"-", "2">>, <<"0">>>>))}

FromtoA == <<<<"0">>, <<"0">>, <<"0">>, <<"0">>, <<"0">>, <<"2">>>>

FromtoBase ==
    {FromtoA,
     <<<<"0">>, <<"0">>, <<"0">>, <<"0">>, <<"0">>>>,
     <<<<"1">>, <<"1">>, <<"1">>, <<"1">>, <<"1">>, <<"1">>>>,
     <<<<"0">>, <<"0">>, <<"0">>, <<"2">>, <<"2">>, <<"1">>>>,
     <<<<"1">>, <<"0">>, <<"0">>, <<"-", "1">>, <<"0">>, <<"0">>>>,
     <<<<"0">>, <<"0">>, <<"x">>, <<"0">>, <<"0">>, <<"2">>>>}

FromtoTexts == Texts(FromtoBase)

FromtoFew == {None, Some(Join(FromtoA))}

GeomTypes ==
    {None, Some("plane"), Some("hfield"), Some("sphere"), Some("capsule"),
     Some("ellipsoid"), Some("cylinder"), Some("box"), Some("mesh"),
     Some("spline"), Some("Sphere"), Some("")}

Constructible == {None, Some("plane"), Some("sphere"), Some("capsule"), Some("box")}

OptionOf(S) == {None} \cup {Some(x) : x \in S}

NoOrient == [a \in Range(OrientAttrs) |-> None]

\* a well-formed, a malformed and a degenerate text for orientation attribute a
OrientGood(a) ==
    CASE a = "quat" -> Join(<<<<"1">>, <<"1">>, <<"0">>, <<"0">>>>)
      [] a = "axisangle" -> Join(<<<<"0">>, <<"0">>, <<"1">>, <<"9">>>>)
      [] a = "euler" -> Join(<<<<"0">>, <<"2">>, <<"0">>>>)
      [] a = "xyaxes" -> Join(<<<<"0">>, <<"1">>, <<"0">>, <<"1">>, <<"0">>, <<"0">>>>)
      [] a = "zaxis" -> Join(<<<<"1">>, <<"0">>, <<"0">>>>)

\* the assignments of texts to at most MaxOrient orientation attributes
OrientChoices ==
    {o \in [Range(OrientAttrs) -> OptionOf({"good", "bad"})] :
        Cardinality({a \in Range(OrientAttrs) : o[a] # None}) <= MaxOrient}
    \cup {[NoOrient EXCEPT ![a] = Some("zero")] : a \in Range(OrientAttrs)}

OrientText(a, c) ==
    CASE c = None -> None
      [] c = Some("good") -> Some(OrientGood(a))
      [] c = Some("bad") -> Some(<<"1", " ", "x">>)
      [] c = Some("zero") -> Some(Join(<<<<"0">>, <<"0">>, <<"0">>>>))

OrientSets == {[a \in Range(OrientAttrs) |-> OrientText(a, o[a])] : o \in OrientChoices}

QuatEuler ==
    [a \in Range(OrientAttrs) |->
        IF a \in {"quat", "euler"} THEN Some(OrientGood(a)) ELSE None]

\* the sets of at most MaxUnsupported unsupported attributes, and all of them
UnsupportedSets ==
    {u \in SUBSET Range(GeomNodeUnsupported) : Cardinality(u) <= MaxUnsupported}
        \cup {Range(GeomNodeUnsupported)}

\* a set of unsupported attributes with the value they all carry
UnsupportedChoices ==
    {<<u, v>> \in UnsupportedSets \X {"", "0.5 x"} : Cardinality(u) = 1 \/ v = ""}

MkNode(t, nm, sz, ps, ft, ori, uns, val) ==
    [a \in AttrNames |->
        CASE a = "type" -> t
          [] a = "name" -> nm
          [] a = "size" -> sz
          [] a = "pos" -> ps
          [] a = "fromto" -> ft
          [] a \in Range(OrientAttrs) -> ori[a]
          [] OTHER -> IF a \in uns THEN Some(val) ELSE None]

\* every type, beside a few sizes and positions
TypeFamily ==
    {MkNode(t, nm, sz, ps, ft, ori, {}, "") :
        t \in GeomTypes, nm \in {None, Some("a")}, sz \in SizeFew, ps \in PosFew,
        ft \in FromtoFew, ori \in {NoOrient, QuatEuler}}

\* every size text on the constructible types
SizeFamily ==
    {MkNode(t, None, sz, ps, ft, NoOrient, {}, "") :
        t \in Constructible, sz \in OptionOf(SizeTexts), ps \in PosFew,
        ft \in OptionOf({Join(b) : b \in FromtoBase})}

\* every pos and fromto text on the constructible types
PositionFamily ==
    {MkNode(t, None, sz, ps, ft, NoOrient, {}, "") :
        t \in Constructible, sz \in SizeFew, ps \in OptionOf(PosTexts),
        ft \in OptionOf(FromtoTexts)}

\* the orientation attributes on the constructible types
OrientFamily ==
    {MkNode(t, None, sz, None, ft, ori, {}, "") :
        t \in Constructible, sz \in SizeFew, ft \in FromtoFew, ori \in OrientSets}

AuditTypes ==
    {None, Some("plane"), Some("capsule"), Some("box"), Some("mesh"), Some("spline")}

\* the unsupported attributes, on geoms that parse and on geoms that fail
AuditFamily ==
    {MkNode(t, nm, sz, None, None, ori, c[1], c[2]) :
        t \in AuditTypes, nm \in {None, Some("a")},
        sz \in {Some(<<"1">>), Some(<<"1", " ", "2", " ", "2">>)},
        ori \in {NoOrient, QuatEuler}, c \in UnsupportedChoices}

GeomInputs ==
    TypeFamily \cup SizeFamily \cup PositionFamily \cup OrientFamily \cup AuditFamily

EmptyNode == MkNode(None, None, None, None, None, NoOrient, {}, "")

----------------------------------------------------------------------------
(* mjcf_model.rs: MJCFModel and its parse functions *)

Elem(tag, attrs, children) == [tag |-> tag, attrs |-> attrs, children |-> children]

\* MJCFModel as parse_xml_string constructs it
NewModel ==
    [model_name |-> "MuJoCo Model", shapes |-> {}, colliders |-> {}, materials |-> {}]

BadXML == [kind |-> "BadXML"]

MissingRequiredTag(t) == [kind |-> "MissingRequiredTag", tag_name |-> t]

WorldBodyHasAttributes == [kind |-> "WorldBodyHasAttributes"]

WorldBodyInvalidChildren == [kind |-> "WorldBodyInvalidChildren"]

InvalidGeomType(t) == [kind |-> "InvalidGeomType", geom_type |-> t]

RECURSIVE format_usize(_)
\* format!("{}", n) of an unsigned number
format_usize(n) ==
    IF n < 10 THEN Digits[n + 1]
    ELSE format_usize(n \div 10) \o Digits[(n % 10) + 1]

\* the local `name` of parse_geom
geom_name(model, n) ==
    IF has_attribute(n, "name") THEN Unwrap(attribute(n, "name"))
    ELSE format_usize(Cardinality(model.shapes))

KnownGeomTypes ==
    {Some("plane"), Some("hfield"), Some("sphere"), None, Some("capsule"),
     Some("ellipsoid"), Some("cylinder"), Some("box"), Some("mesh")}

\* the match on "type" of parse_geom
geom_type_check(n) ==
    IF attribute(n, "type") \in KnownGeomTypes THEN Ok(<<>>)
    ELSE Err(InvalidGeomType(Unwrap(attribute(n, "type"))))

\* MJCFModel::parse_geom: the returned Result, the records logged and the name
parse_geom(model, n) ==
    LET log0 == <<Debug("Parsing geom tag")>> \o
                (IF has_attribute(n, "class")
                 THEN <<Warn("attribute is currently unsupported", "class")>>
                 ELSE <<>>)
        ty == geom_type_check(n)
    IN IF ~ty.ok THEN [res |-> ty, log |-> log0, name |-> geom_name(model, n)]
       ELSE [res |-> Ok(<<>>), log |-> log0 \o WarnPresent(n, ModelGeomUnsupported, 1),
             name |-> geom_name(model, n)]

----------------------------------------------------------------------------
(* The explored documents *)

NoAttrs == EmptyNode

Leaf(tag) == Elem(tag, NoAttrs, <<>>)

Geom(n) == Elem("geom", n, <<>>)

RootAttrs(model) == [model |-> model]

Document(wellformed, root) == [wellformed |-> wellformed, root |-> root]

\* the children of a worldbody other than geoms; "" is the tag name of a text node
OtherChildren ==
    {Leaf(t) : t \in {"inertial", "joint", "freejoint", "body", "site", "camera",
                      "light", "default", ""}}

UnnamedGeom == MkNode(None, None, Some(<<"1">>), None, None, NoOrient, {}, "")

SceneGeoms ==
    {Geom(UnnamedGeom),
     Geom(MkNode(Some("box"), Some("a"), None, None, None, NoOrient, {"rgba"}, "")),
     Geom(MkNode(Some("mesh"), None, None, None, None, NoOrient, {}, "")),
     Geom(MkNode(Some("spline"), None, None, None, None, NoOrient, {"class"}, ""))}

SceneChildren == OtherChildren \cup SceneGeoms

SeqsUpTo(S, k) == UNION {[1..m -> S] : m \in 0..k}

Scene(children) == Document(TRUE, Elem("mujoco", RootAttrs(None),
                                       <<Elem("worldbody", NoAttrs, children)>>))

\* one worldbody of up to MaxChildren children
SceneFamily == {Scene(cs) : cs \in SeqsUpTo(SceneChildren, MaxChildren)}

SecondBody == Elem("worldbody", NoAttrs, <<Geom(UnnamedGeom)>>)

RootShapes(wb) ==
    {<<>>, <<wb>>, <<Leaf(""), wb>>, <<wb, Leaf("asset")>>, <<wb, SecondBody>>,
     <<SecondBody, wb>>}

\* the root's name and attributes, the worldbody's attributes and place
StructureFamily ==
    {Document(TRUE, Elem(tag, RootAttrs(model), kids)) :
        tag \in {"mujoco", "foo", "worldbody"}, model \in {None, Some("m")},
        kids \in UNION {RootShapes(Elem("worldbody", wa, cs)) :
                          wa \in {NoAttrs, [NoAttrs EXCEPT !["name"] = Some("x")]},
                          cs \in SeqsUpTo(SceneChildren, 1)}}

NoTree == Elem("", RootAttrs(None), <<>>)

Named == [NoAttrs EXCEPT !["name"] = Some("x")]

InvalidGeom == Geom(MkNode(Some("spline"), None, None, None, None, NoOrient, {"class"}, ""))

\* a text that is no XML: roxmltree builds no tree; root is what the text
\* reads like up to the place that breaks it ("<mujoco" or an unclosed
\* "<mujoco><worldbody name='x'></worldbody><mujoco>")
MalformedFamily ==
    {Document(FALSE, r) :
        r \in {NoTree, Leaf("foo"), Leaf("mujoco"),
               Elem("mujoco", RootAttrs(None), <<Elem("worldbody", Named, <<>>)>>),
               Elem("mujoco", RootAttrs(None),
                    <<Elem("worldbody", NoAttrs, <<Leaf("joint")>>)>>),
               Elem("mujoco", RootAttrs(None),
                    <<Elem("worldbody", NoAttrs, <<InvalidGeom>>)>>)}}

\* three children: one skipped or diagnosed, one that may offend, one after it
ThreeChildren ==
    {Scene(<<a, b, c>>) :
        a \in {Leaf("default"), Leaf("body")},
        b \in {Leaf("joint"), InvalidGeom, Leaf("site"), Geom(UnnamedGeom)},
        c \in {Geom(MkNode(None, None, None, None, None, NoOrient, {"rgba"}, "")),
               Leaf("freejoint"), Leaf("")}}

OrderBodies ==
    {Elem("worldbody", wa, cs) :
        wa \in {NoAttrs, Named},
        cs \in {<<>>, <<Leaf("joint")>>, <<InvalidGeom>>, <<Leaf("default")>>}}

\* two worldbodies, each of which may offend
TwoBodies ==
    {Document(TRUE, Elem("mujoco", RootAttrs(None), <<w1, w2>>)) :
        w1 \in OrderBodies, w2 \in OrderBodies}

OrderFamily == ThreeChildren \cup TwoBodies

\* one geom with unsupported attributes, one geom of every type
GeomSceneFamily ==
    {Scene(<<Geom(MkNode(t, nm, None, None, None, NoOrient, c[1], c[2]))>>) :
        t \in {None, Some("box"), Some("mesh"), Some("spline")},
        nm \in {None, Some("a")}, c \in UnsupportedChoices}
    \cup {Scene(<<Geom(MkNode(t, None, sz, ps, None, ori, {}, ""))>>) :
            t \in GeomTypes, sz \in {None, Some(<<"1">>)}, ps \in PosFew,
            ori \in {NoOrient, QuatEuler}}

DocInputs ==
    SceneFamily \cup StructureFamily \cup MalformedFamily \cup GeomSceneFamily
    \cup OrderFamily

\* the documents handed to the parse_xml_string of lib.rs
LibInputs == StructureFamily \cup MalformedFamily

\* the argument of the entry point that is not called
Unused == <<>>

----------------------------------------------------------------------------
(* log.rs: the root logger behind its lock *)

\* create_root_logger(None), the logger LOG is created with
DefaultLogger == 0

\* LOG: the logger it holds and the threads holding its lock
NewLOG == [value |-> DefaultLogger, readers |-> {}, writer |-> {}]

\* the thread of the call that call, pc, doc, ... follow; the other threads are 1, 2, ...
Self == 0

\* RwLock::read returns once no thread holds the write lock
CanRead(L) == L.writer = {}

\* RwLock::write returns once no thread holds the lock
CanWrite(L) == L.writer = {} /\ L.readers = {}

\* a call of another thread that has not started
Peer(op) == [op |-> op, pc |-> "start", logger |-> None]

PeerOps == {"parse_xml_string", "set_root_logger"}

----------------------------------------------------------------------------
(* The state machine: one call of parse_geom_node or of parse_xml_string *)

InitGeomCall ==
    /\ call = "parse_geom_node"
    /\ node \in GeomInputs
    /\ doc = Unused

InitDocCall ==
    /\ call = "parse_xml_string"
    /\ node = Unused
    /\ doc \in DocInputs

InitLibCall ==
    /\ call = "lib_parse_xml_string"
    /\ node = Unused
    /\ doc \in LibInputs

InitLocals ==
    /\ pc = "start"
    /\ ri = 0
    /\ ci = 0
    /\ mjcf_model = NewModel
    /\ names = <<>>
    /\ log = <<>>
    /\ result = None
    /\ LOG = NewLOG
    /\ logger = None

Init ==
    /\ (InitGeomCall \/ InitDocCall \/ InitLibCall)
    /\ InitLocals
    /\ peers = <<>>

Return(r) ==
    /\ result' = Some(r)
    /\ pc' = "done"

\* a failed assert!: the call unwinds and returns no value
Panic ==
    /\ result' = None
    /\ pc' = "panicked"

\* lib.rs: the whole of MJCFModel::parse_xml_string; its parse_worldbody is empty
LibParseXmlString ==
    /\ call = "lib_parse_xml_string"
    /\ pc = "start"
    /\ IF ~doc.wellformed
       THEN /\ Return(Err([kind |-> "String"]))
            /\ mjcf_model' = mjcf_model
       ELSE IF doc.root.tag # "mujoco"
       THEN /\ Panic
            /\ mjcf_model' = mjcf_model
       ELSE /\ Return(Ok(IF IsSome(doc.root.attrs.model)
                         THEN [mjcf_model EXCEPT
                                 !.model_name = Unwrap(doc.root.attrs.model)]
                         ELSE mjcf_model))
            /\ mjcf_model' = Unwrap(result').val
    /\ UNCHANGED <<call, node, doc, ri, ci, names, log, LOG, logger, peers>>

\* tags/geom.rs: the whole of parse_geom_node
ParseGeomNode ==
    /\ call = "parse_geom_node"
    /\ pc = "start"
    /\ LET r == parse_geom_node(node)
       IN /\ log' = log \o r.log
          /\ Return(r.res)
    /\ UNCHANGED <<call, node, doc, ri, ci, mjcf_model, names>>
    /\ UNCHANGED <<LOG, logger, peers>>

\* parse_xml_string: log::LOG.read().unwrap(), the read lock is taken
ReadLock ==
    /\ call = "parse_xml_string"
    /\ pc = "start"
    /\ CanRead(LOG)
    /\ LOG' = [LOG EXCEPT !.readers = @ \cup {Self}]
    /\ pc' = "snapshot"
    /\ UNCHANGED <<call, node, doc, ri, ci, mjcf_model, names, log, result, logger, peers>>

\* parse_xml_string with the read guard bound to a local: it lives to the return
TakeLogger_KeepsGuard ==
    /\ pc = "snapshot"
    /\ logger' = Some(LOG.value)
    /\ LOG' = LOG
    /\ pc' = "parse"
    /\ UNCHANGED <<call, node, doc, ri, ci, mjcf_model, names, log, result, peers>>

\* parse_xml_string: .new(o!()) builds `logger` from the root logger, and the
\* guard, a temporary of the statement, is dropped
TakeLogger ==
    /\ pc = "snapshot"
    /\ logger' = Some(LOG.value)
    /\ LOG' = [LOG EXCEPT !.readers = @ \ {Self}]
    /\ pc' = "parse"
    /\ UNCHANGED <<call, node, doc, ri, ci, mjcf_model, names, log, result, peers>>

\* parse_xml_string with the check of the root's name ahead of the parse error
ParseXmlString_RootFirst ==
    /\ call = "parse_xml_string"
    /\ pc = "parse"
    /\ IF doc.root.tag # "mujoco"
       THEN /\ log' = log \o <<Debug("Parsing XML string")>>
            /\ Return(Err(MissingRequiredTag("mujoco")))
            /\ UNCHANGED <<ri, mjcf_model>>
       ELSE IF ~doc.wellformed
       THEN /\ log' = log \o <<Debug("Parsing XML string")>>
            /\ Return(Err(BadXML))
            /\ UNCHANGED <<ri, mjcf_model>>
       ELSE /\ IF IsSome(doc.root.attrs.model)
               THEN /\ mjcf_model' =
                         [mjcf_model EXCEPT !.model_name = Unwrap(doc.root.attrs.model)]
                    /\ log' = log \o <<Debug("Parsing XML string"),
                                       Debug("Changed model name")>>
               ELSE /\ mjcf_model' = mjcf_model
                    /\ log' = log \o <<Debug("Parsing XML string")>>
            /\ pc' = "root"
            /\ ri' = 1
            /\ result' = result
    /\ UNCHANGED <<call, node, doc, ci, names>>
    /\ UNCHANGED <<LOG, logger, peers>>

\* parse_xml_string from there up to its loop over the root's children
ParseXmlString ==
    /\ call = "parse_xml_string"
    /\ pc = "parse"
    /\ IF ~doc.wellformed
       THEN /\ log' = log \o <<Debug("Parsing XML string")>>
            /\ Return(Err(BadXML))
            /\ UNCHANGED <<ri, mjcf_model>>
       ELSE IF doc.root.tag # "mujoco"
       THEN /\ log' = log \o <<Debug("Parsing XML string")>>
            /\ Return(Err(MissingRequiredTag("mujoco")))
            /\ UNCHANGED <<ri, mjcf_model>>
       ELSE /\ IF IsSome(doc.root.attrs.model)
               THEN /\ mjcf_model' =
                         [mjcf_model EXCEPT !.model_name = Unwrap(doc.root.attrs.model)]
                    /\ log' = log \o <<Debug("Parsing XML string"),
                                       Debug("Changed model name")>>
               ELSE /\ mjcf_model' = mjcf_model
                    /\ log' = log \o <<Debug("Parsing XML string")>>
            /\ pc' = "root"
            /\ ri' = 1
            /\ result' = result
    /\ UNCHANGED <<call, node, doc, ci, names>>
    /\ UNCHANGED <<LOG, logger, peers>>

\* the loop over the root's children is over: Ok(mjcf_model)
FinishRoot ==
    /\ pc = "root"
    /\ ri > Len(doc.root.children)
    /\ Return(Ok(mjcf_model))
    /\ UNCHANGED <<call, node, doc, ri, ci, mjcf_model, names, log>>
    /\ UNCHANGED <<LOG, logger, peers>>

\* a child of the root that is no worldbody
SkipRootChild ==
    /\ pc = "root"
    /\ ri <= Len(doc.root.children)
    /\ doc.root.children[ri].tag # "worldbody"
    /\ ri' = ri + 1
    /\ UNCHANGED <<call, pc, node, doc, ci, mjcf_model, names, log, result>>
    /\ UNCHANGED <<LOG, logger, peers>>

\* parse_worldbody without its check of the attributes
EnterWorldbody_NoCheck ==
    /\ pc = "root"
    /\ ri <= Len(doc.root.children)
    /\ doc.root.children[ri].tag = "worldbody"
    /\ log' = log \o <<Debug("Parsing worldbody tag")>>
    /\ pc' = "worldbody"
    /\ ci' = 1
    /\ result' = result
    /\ UNCHANGED <<call, node, doc, ri, mjcf_model, names>>
    /\ UNCHANGED <<LOG, logger, peers>>

\* parse_worldbody up to its loop over the worldbody's children
EnterWorldbody ==
    /\ pc = "root"
    /\ ri <= Len(doc.root.children)
    /\ doc.root.children[ri].tag = "worldbody"
    /\ log' = log \o <<Debug("Parsing worldbody tag")>>
    /\ IF \E a \in AttrNames : has_attribute(doc.root.children[ri].attrs, a)
       THEN /\ Return(Err(WorldBodyHasAttributes))
            /\ ci' = ci
       ELSE /\ pc' = "worldbody"
            /\ ci' = 1
            /\ result' = result
    /\ UNCHANGED <<call, node, doc, ri, mjcf_model, names>>
    /\ UNCHANGED <<LOG, logger, peers>>

Child == doc.root.children[ri].children[ci]

InBody ==
    /\ pc = "worldbody"
    /\ ci <= Len(doc.root.children[ri].children)

\* the loop over the worldbody's children is over: parse_worldbody returns Ok
LeaveWorldbody ==
    /\ pc = "worldbody"
    /\ ci > Len(doc.root.children[ri].children)
    /\ pc' = "root"
    /\ ri' = ri + 1
    /\ ci' = 0
    /\ UNCHANGED <<call, node, doc, mjcf_model, names, log, result>>
    /\ UNCHANGED <<LOG, logger, peers>>

\* parse_worldbody with the inertial/joint/freejoint arm left empty
InvalidChild_Skips ==
    /\ InBody
    /\ Child.tag \in {"inertial", "joint", "freejoint"}
    /\ ci' = ci + 1
    /\ UNCHANGED <<call, pc, node, doc, ri, mjcf_model, names, log, result>>
    /\ UNCHANGED <<LOG, logger, peers>>

\* an inertial, joint or freejoint child: WorldBodyInvalidChildren
InvalidChild ==
    /\ InBody
    /\ Child.tag \in {"inertial", "joint", "freejoint"}
    /\ Return(Err(WorldBodyInvalidChildren))
    /\ UNCHANGED <<call, node, doc, ri, ci, mjcf_model, names, log>>
    /\ UNCHANGED <<LOG, logger, peers>>

SkipChild ==
    /\ InBody
    /\ Child.tag \in {"body", "site", "camera", "light"}
    /\ ci' = ci + 1
    /\ UNCHANGED <<call, pc, node, doc, ri, mjcf_model, names, log, result>>
    /\ UNCHANGED <<LOG, logger, peers>>

\* parse_worldbody without the ? on parse_geom: the error is dropped
GeomChild_KeepsGoing ==
    /\ InBody
    /\ Child.tag = "geom"
    /\ LET r == parse_geom(mjcf_model, Child.attrs)
       IN /\ log' = log \o r.log
          /\ names' = Append(names, [scene |-> ri, attr |-> attribute(Child.attrs, "name"),
                                      name |-> r.name])
          /\ ci' = ci + 1
          /\ UNCHANGED <<pc, result>>
    /\ UNCHANGED <<call, node, doc, ri, mjcf_model>>
    /\ UNCHANGED <<LOG, logger, peers>>

\* a geom child: the whole of parse_geom
GeomChild ==
    /\ InBody
    /\ Child.tag = "geom"
    /\ LET r == parse_geom(mjcf_model, Child.attrs)
       IN /\ log' = log \o r.log
          /\ names' = Append(names, [scene |-> ri, attr |-> attribute(Child.attrs, "name"),
                                      name |-> r.name])
          /\ IF r.res.ok
             THEN /\ ci' = ci + 1
                  /\ UNCHANGED <<pc, result>>
             ELSE /\ Return(r.res)
                  /\ ci' = ci
    /\ UNCHANGED <<call, node, doc, ri, mjcf_model>>
    /\ UNCHANGED <<LOG, logger, peers>>

UnsupportedChild ==
    /\ InBody
    /\ Child.tag \notin {"inertial", "joint", "freejoint", "body", "geom", "site",
                         "camera", "light"}
    /\ log' = Append(log, Warn("Ignorning unsupported tag", Child.tag))
    /\ ci' = ci + 1
    /\ UNCHANGED <<call, pc, node, doc, ri, mjcf_model, names, result>>
    /\ UNCHANGED <<LOG, logger, peers>>

Next ==
    \/ ParseGeomNode
    \/ LibParseXmlString
    \/ ReadLock
    \/ TakeLogger
    \/ ParseXmlString
    \/ FinishRoot
    \/ SkipRootChild
    \/ EnterWorldbody
    \/ LeaveWorldbody
    \/ InvalidChild
    \/ SkipChild
    \/ GeomChild
    \/ UnsupportedChild

Spec == Init /\ [][Next]_vars

----------------------------------------------------------------------------
(* The calls of other threads: parse_xml_string and set_root_logger *)

Locals == <<call, pc, node, doc, ri, ci, mjcf_model, names, log, result, logger>>

IsPeer(p, op, at) == p \in DOMAIN peers /\ peers[p].op = op /\ peers[p].pc = at

\* parse_xml_string of thread p: log::LOG.read().unwrap()
PeerReadLock(p) ==
    /\ IsPeer(p, "parse_xml_string", "start")
    /\ CanRead(LOG)
    /\ LOG' = [LOG EXCEPT !.readers = @ \cup {p}]
    /\ peers' = [peers EXCEPT ![p].pc = "snapshot"]
    /\ UNCHANGED Locals

\* parse_xml_string of thread p: .new(o!()), and the guard is dropped
PeerTakeLogger(p) ==
    /\ IsPeer(p, "parse_xml_string", "snapshot")
    /\ LOG' = [LOG EXCEPT !.readers = @ \ {p}]
    /\ peers' = [peers EXCEPT ![p].pc = "parse", ![p].logger = Some(LOG.value)]
    /\ UNCHANGED Locals

\* parse_xml_string of thread p from there to its return: it works on its own
\* text, model and logger
PeerParse(p) ==
    /\ IsPeer(p, "parse_xml_string", "parse")
    /\ peers' = [peers EXCEPT ![p].pc = "done"]
    /\ UNCHANGED <<Locals, LOG>>

\* set_root_logger of thread p: LOG.write().unwrap()
WriteLock(p) ==
    /\ IsPeer(p, "set_root_logger", "start")
    /\ CanWrite(LOG)
    /\ LOG' = [LOG EXCEPT !.writer = {p}]
    /\ peers' = [peers EXCEPT ![p].pc = "write"]
    /\ UNCHANGED Locals

\* set_root_logger of thread p: *log = Arc::new(...) with the logger p passes,
\* and the guard is dropped at the return
set_root_logger(p) ==
    /\ IsPeer(p, "set_root_logger", "write")
    /\ LOG' = [LOG EXCEPT !.value = p, !.writer = {}]
    /\ peers' = [peers EXCEPT ![p].pc = "done"]
    /\ UNCHANGED Locals

\* the documents of the followed call
ConcDocs ==
    ThreeChildren \cup MalformedFamily
    \cup {Document(TRUE, Elem(tag, RootAttrs(Some("m")),
                              <<Leaf(""), SecondBody, Leaf("asset")>>)) :
            tag \in {"mujoco", "foo"}}

\* the calls of the other threads, set_root_logger last
PeerCalls ==
    {ps \in [1..MaxPeers -> {Peer(op) : op \in PeerOps}] :
        \A p \in 1..(MaxPeers - 1) :
            ps[p].op = "set_root_logger" => ps[p + 1].op = "set_root_logger"}

ConcInit ==
    /\ call = "parse_xml_string"
    /\ node = Unused
    /\ doc \in ConcDocs
    /\ InitLocals
    /\ peers \in PeerCalls

SelfNext ==
    \/ ReadLock
    \/ TakeLogger
    \/ ParseXmlString
    \/ FinishRoot
    \/ SkipRootChild
    \/ EnterWorldbody
    \/ LeaveWorldbody
    \/ InvalidChild
    \/ SkipChild
    \/ GeomChild
    \/ UnsupportedChild

PeerNext(p) ==
    \/ PeerReadLock(p)
    \/ PeerTakeLogger(p)
    \/ PeerParse(p)
    \/ WriteLock(p)
    \/ set_root_logger(p)

ConcNext ==
    \/ SelfNext
    \/ \E p \in 1..MaxPeers : PeerNext(p)

\* every thread that can take a step is scheduled in the end
ConcSpec ==
    /\ ConcInit
    /\ [][ConcNext]_vars
    /\ WF_vars(SelfNext)
    /\ \A p \in 1..MaxPeers : WF_vars(PeerNext(p))

----------------------------------------------------------------------------
(* Vocabulary of the properties *)

GeomDone == call = "parse_geom_node" /\ pc = "done"

GeomResult == Unwrap(result)

TypeOf(n) == attribute(n, "type")

UnsupportedTypes == {Some("hfield"), Some("ellipsoid"), Some("cylinder"), Some("mesh")}

TokenCount(text) == Len(split_whitespace(text))

\* text holds exactly k tokens and each is a number
WellFormed(text, k) ==
    /\ TokenCount(text) = k
    /\ \A m \in 1..k : IsSome(from_str(split_whitespace(text)[m]))

HasWellFormed(n, a, k) == has_attribute(n, a) /\ WellFormed(Unwrap(attribute(n, a)), k)

OrientCount(n) == Cardinality({a \in Range(OrientAttrs) : has_attribute(n, a)})

\* the geoms of the scene being parsed that parse_geom has returned Ok for
PassedGeoms ==
    IF call = "parse_xml_string" /\ pc = "worldbody"
    THEN {doc.root.children[ri].children[k].attrs :
            k \in {m \in 1..(ci - 1) : doc.root.children[ri].children[m].tag = "geom"}}
    ELSE {}

----------------------------------------------------------------------------
(* C1 *)

\* C1 (as claimed): the type attribute decides the outcome class, for
\* parse_geom_node and for a geom reached through parse_xml_string alike: an
\* unsupported type fails with the unsupported-type error carrying it, any
\* other unknown string fails with the invalid-type error carrying it, and a
\* constructible or absent type gets neither error.  A geom that
\* parse_xml_string has passed over without failing has a constructible type.
C1_TypeDecidesOutcome ==
    /\ GeomDone =>
         /\ TypeOf(node) \in UnsupportedTypes
              => GeomResult = Err(UnsupportedType(Unwrap(TypeOf(node))))
         /\ TypeOf(node) \notin UnsupportedTypes \cup Constructible
              => GeomResult = Err(InvalidType(Unwrap(TypeOf(node))))
         /\ TypeOf(node) \in Constructible
              => \/ GeomResult.ok
                 \/ GeomResult.err.kind \notin {"UnsupportedType", "InvalidType"}
    /\ \A g \in PassedGeoms : TypeOf(g) \in Constructible

\* parse_geom_node alone keeps the claim: the conjunct about it holds
C1_GeomNodeTypeOutcome ==
    GeomDone =>
         /\ TypeOf(node) \in UnsupportedTypes
              => GeomResult = Err(UnsupportedType(Unwrap(TypeOf(node))))
         /\ TypeOf(node) \notin UnsupportedTypes \cup Constructible
              => GeomResult = Err(InvalidType(Unwrap(TypeOf(node))))
         /\ TypeOf(node) \in Constructible
              => \/ GeomResult.ok
                 \/ GeomResult.err.kind \notin {"UnsupportedType", "InvalidType"}

----------------------------------------------------------------------------
(* C2 *)

\* the radius each explored one-token size text denotes, in halves
RadiusTexts == {<<"1">>, <<"2">>, <<"-", "1">>, <<" ", "1", "2", " ", " ">>}

RadiusTable ==
    [t \in RadiusTexts |->
        CASE t = <<"1">> -> 2
          [] t = <<"2">> -> 4
          [] t = <<"-", "1">> -> -2
          [] t = <<" ", "1", "2", " ", " ">> -> 24]

SphereOnly(n) ==
    /\ TypeOf(n) \in {None, Some("sphere")}
    /\ has_attribute(n, "size")
    /\ Unwrap(attribute(n, "size")) \in RadiusTexts
    /\ ~has_attribute(n, "pos")
    /\ OrientCount(n) = 0

Twin(n) ==
    [n EXCEPT !["type"] = IF TypeOf(n) = None THEN Some("sphere") ELSE None]

\* C2: a geom with a one-number non-zero size r, no pos and no orientation
\* attribute, whose type is absent or "sphere", parses to a sphere of radius
\* exactly r at the origin, and the geom with the other of the two types
\* parses to the same result.
C2_SphereDefault ==
    (GeomDone /\ SphereOnly(node)) =>
        /\ GeomResult.ok
        /\ GeomResult.val.shape =
             [shape |-> "Ball", radius |-> RadiusTable[Unwrap(attribute(node, "size"))]]
        /\ GeomResult.val.translation = <<0, 0, 0>>
        /\ parse_geom_node(Twin(node)).res = GeomResult

C2_Witness ==
    /\ GeomDone
    /\ SphereOnly(node)
    /\ TypeOf(node) = None
    /\ attribute(node, "size") = Some(<<"-", "1">>)
    /\ GeomResult.ok
    /\ GeomResult.val.shape.radius = -2

----------------------------------------------------------------------------
(* C3 *)

BothPositions(n) ==
    /\ TypeOf(n) \in {Some("capsule"), Some("box")}
    /\ has_attribute(n, "pos")
    /\ has_attribute(n, "fromto")

\* the shape of n can be built: size is there with the tokens its type takes
ShapeOk(n) ==
    CASE TypeOf(n) = Some("plane") -> TRUE
      [] TypeOf(n) \in {None, Some("sphere")} -> HasWellFormed(n, "size", 1)
      [] TypeOf(n) = Some("capsule") ->
            IF has_attribute(n, "fromto")
            THEN HasWellFormed(n, "size", 1) /\ HasWellFormed(n, "fromto", 6)
            ELSE HasWellFormed(n, "size", 2)
      [] TypeOf(n) = Some("box") -> HasWellFormed(n, "size", 3)
      [] OTHER -> FALSE

\* C3 (as claimed): a capsule or box with both pos and fromto fails with
\* MultiplePositions whatever size, pos, fromto and the other attributes hold.
C3_AlwaysMultiplePositions ==
    (GeomDone /\ BothPositions(node)) => GeomResult = Err(MultiplePositions)

\* C3 (amended): a capsule or box with both pos and fromto never parses; it
\* fails with MultiplePositions whenever its shape can be built (size present
\* with the token count of its type, and for the capsule a well-formed
\* fromto), whatever pos holds, and with RequiredAttributeMissing or
\* BadRealAttribute from the shape otherwise.
C3_MultiplePositionsAfterShape ==
    (GeomDone /\ BothPositions(node)) =>
        /\ ~GeomResult.ok
        /\ ShapeOk(node) => GeomResult = Err(MultiplePositions)
        /\ ~ShapeOk(node) =>
             GeomResult.err.kind \in {"RequiredAttributeMissing", "BadRealAttribute"}

C3_Witness ==
    /\ GeomDone
    /\ BothPositions(node)
    /\ TypeOf(node) = Some("box")
    /\ ~HasWellFormed(node, "pos", 3)
    /\ ~HasWellFormed(node, "fromto", 6)
    /\ GeomResult = Err(MultiplePositions)

----------------------------------------------------------------------------
(* C4 *)

CapsuleFromto(n) ==
    /\ TypeOf(n) = Some("capsule")
    /\ HasWellFormed(n, "fromto", 6)
    /\ ~has_attribute(n, "pos")
    /\ OrientCount(n) = 0

\* the six numbers of a well-formed fromto
Ends(n) == parse_real_vector_attribute(Unwrap(attribute(n, "fromto")), 6).val

SquaredLength(f) ==
    (f[1] - f[4]) * (f[1] - f[4]) + (f[2] - f[5]) * (f[2] - f[5])
        + (f[3] - f[6]) * (f[3] - f[6])

\* r is Ok with the translation in the middle of fromto and the half length
\* half of its length, to the precision of the numbers
MidpointResult(n, r) ==
    /\ r.ok
    /\ \A k \in 1..3 : 2 * r.val.translation[k] = Ends(n)[k] + Ends(n)[k + 3]
    /\ r.val.shape.shape = "Capsule"
    /\ r.val.shape.half_length >= 0
    /\ 4 * r.val.shape.half_length * r.val.shape.half_length <= SquaredLength(Ends(n))
    /\ SquaredLength(Ends(n))
         < 4 * (r.val.shape.half_length + 1) * (r.val.shape.half_length + 1)
    /\ attribute(n, "fromto") = Some(Join(FromtoA))
         => r.val.translation = <<0, 0, 2>> /\ r.val.shape.half_length = 2

\* C4 (as claimed): a capsule with a well-formed fromto and no pos parses to
\* the midpoint and the half distance, the same whether size holds a radius
\* or a radius followed by a half length.
C4_FromtoAnySize ==
    (GeomDone /\ CapsuleFromto(node)
        /\ (HasWellFormed(node, "size", 1) \/ HasWellFormed(node, "size", 2)))
      => MidpointResult(node, GeomResult)

\* C4 (amended): a capsule with a well-formed fromto, no pos and no
\* orientation attribute parses to the midpoint and the half distance when
\* size holds the radius alone; when size holds a radius followed by a half
\* length the parse fails with BadRealAttribute.
C4_FromtoRadiusOnly ==
    (GeomDone /\ CapsuleFromto(node)) =>
        /\ HasWellFormed(node, "size", 1) =>
             /\ MidpointResult(node, GeomResult)
             /\ <<GeomResult.val.shape.radius>>
                  = from_str(split_whitespace(Unwrap(attribute(node, "size")))[1])
        /\ HasWellFormed(node, "size", 2) =>
             GeomResult = Err(BadRealAttribute([kind |-> "TooManyValues"]))

C4_Witness ==
    /\ GeomDone
    /\ CapsuleFromto(node)
    /\ attribute(node, "fromto") = Some(Join(FromtoA))
    /\ attribute(node, "size") = Some(<<"1">>)
    /\ GeomResult.ok
    /\ GeomResult.val.translation = <<0, 0, 2>>
    /\ GeomResult.val.shape.half_length = 2

----------------------------------------------------------------------------
(* C5 *)

\* the translation of n can be resolved
TranslationOk(n) ==
    IF TypeOf(n) \in {Some("capsule"), Some("box")} /\ has_attribute(n, "fromto")
    THEN ~has_attribute(n, "pos") /\ HasWellFormed(n, "fromto", 6)
    ELSE ~has_attribute(n, "pos") \/ HasWellFormed(n, "pos", 3)

ManyOrientations(n) == TypeOf(n) \in Constructible /\ OrientCount(n) > 1

MultipleOrientations == BadOrientation([kind |-> "MultipleOrientations"])

\* C5 (as claimed): a geom of a constructible type with more than one
\* orientation attribute fails with MultipleOrientations.
C5_AlwaysMultipleOrientations ==
    (GeomDone /\ ManyOrientations(node)) => GeomResult = Err(MultipleOrientations)

\* C5 (amended): a geom of a constructible type with more than one
\* orientation attribute never parses; it fails with MultipleOrientations
\* whenever its shape and its translation resolve, and with the error of the
\* shape or of the translation otherwise.
C5_MultipleOrientationsAfterPose ==
    (GeomDone /\ ManyOrientations(node)) =>
        /\ ~GeomResult.ok
        /\ (ShapeOk(node) /\ TranslationOk(node)) => GeomResult = Err(MultipleOrientations)
        /\ ~(ShapeOk(node) /\ TranslationOk(node)) =>
             GeomResult.err.kind
                \in {"RequiredAttributeMissing", "BadRealAttribute", "MultiplePositions"}

C5_Witness ==
    /\ GeomDone
    /\ TypeOf(node) = Some("plane")
    /\ has_attribute(node, "quat")
    /\ has_attribute(node, "euler")
    /\ GeomResult = Err(MultipleOrientations)

----------------------------------------------------------------------------
(* C6 *)

SizeTokens(n) == TokenCount(Unwrap(attribute(n, "size")))

\* the tokens size must hold for the type of n
SizeArity(n) ==
    CASE TypeOf(n) \in {None, Some("sphere")} -> 1
      [] TypeOf(n) = Some("capsule") -> IF has_attribute(n, "fromto") THEN 1 ELSE 2
      [] TypeOf(n) = Some("box") -> 3

\* C6: a numeric attribute is taken only with exactly the tokens its shape
\* needs.  A sphere (or untyped) size of other than 1 token, a capsule size of
\* other than 2 tokens (1 beside fromto) and a box size of other than 3 tokens
\* fail with BadRealAttribute; and no geom parses with a pos of other than 3
\* tokens, nor a capsule or box with a fromto of other than 6.
C6_ExactArity ==
    GeomDone =>
        /\ (TypeOf(node) \in {None, Some("sphere"), Some("capsule"), Some("box")}
              /\ has_attribute(node, "size") /\ SizeTokens(node) # SizeArity(node))
             => (~GeomResult.ok /\ GeomResult.err.kind = "BadRealAttribute")
        /\ (GeomResult.ok /\ has_attribute(node, "pos"))
             => TokenCount(Unwrap(attribute(node, "pos"))) = 3
        /\ (GeomResult.ok /\ TypeOf(node) \in {Some("capsule"), Some("box")}
              /\ has_attribute(node, "fromto"))
             => TokenCount(Unwrap(attribute(node, "fromto"))) = 6

C6_Witness ==
    /\ GeomDone
    /\ TypeOf(node) = None
    /\ HasWellFormed(node, "size", 3)
    /\ GeomResult = Err(BadRealAttribute([kind |-> "TooManyValues"]))

----------------------------------------------------------------------------
(* C7 *)

SizeNeeded(n) ==
    /\ TypeOf(n) \in {None, Some("sphere"), Some("capsule"), Some("box")}
    /\ ~has_attribute(n, "size")

\* C7 (as claimed): a geom of absent, sphere, capsule or box type without
\* size fails with RequiredAttributeMissing("size") whatever else it carries,
\* so parse_xml_string passes over no such geom; and the outcome of a plane
\* does not depend on its size.
C7_SizeRequired ==
    /\ (GeomDone /\ SizeNeeded(node)) => GeomResult = Err(RequiredAttributeMissing("size"))
    /\ (GeomDone /\ TypeOf(node) = Some("plane"))
         => GeomResult = parse_geom_node([node EXCEPT !["size"] = None]).res
    /\ \A g \in PassedGeoms : ~SizeNeeded(g)

\* parse_geom_node alone keeps the claim: the conjuncts about it hold
C7_GeomNodeSizeRequired ==
    /\ (GeomDone /\ SizeNeeded(node)) => GeomResult = Err(RequiredAttributeMissing("size"))
    /\ (GeomDone /\ TypeOf(node) = Some("plane"))
         => GeomResult = parse_geom_node([node EXCEPT !["size"] = None]).res

----------------------------------------------------------------------------
(* C8 *)

Audited == Range(GeomNodeUnsupported)

\* n without its unsupported attributes
Strip(n) == [a \in AttrNames |-> IF a \in Audited THEN None ELSE n[a]]

IsAuditWarning(e, a) ==
    e.level = "warn" /\ e.msg = "attribute is currently unsupported" /\ e.key = a

WarnCount(l, a) == Cardinality({k \in 1..Len(l) : IsAuditWarning(l[k], a)})

\* l without the warnings about unsupported attributes
OtherRecords(l) == SelectSeq(l, LAMBDA e : \A a \in Audited : ~IsAuditWarning(e, a))

\* the places <<r, k>> of the geoms parse_geom has been called on
Reached ==
    IF call # "parse_xml_string" THEN {}
    ELSE {p \in UNION {{<<r, k>> : k \in 1..Len(doc.root.children[r].children)} :
                         r \in 1..Len(doc.root.children)} :
            /\ doc.root.children[p[1]].tag = "worldbody"
            /\ doc.root.children[p[1]].children[p[2]].tag = "geom"
            /\ \/ p[1] < ri
               \/ p[1] = ri /\ p[2] < ci
               \/ p[1] = ri /\ p[2] = ci /\ pc = "done"}

\* the place of the geom parse_geom has failed on
Failed == {p \in Reached : p[1] = ri /\ p[2] = ci /\ pc = "done"}

GeomAt(p) == doc.root.children[p[1]].children[p[2]].attrs

\* C8 (as claimed): unsupported attributes leave the outcome as it is without
\* them and add exactly one warning each, whatever the outcome is.
C8_OneWarningAlways ==
    /\ GeomDone =>
         /\ GeomResult = parse_geom_node(Strip(node)).res
         /\ \A a \in Audited :
               WarnCount(log, a) = IF has_attribute(node, a) THEN 1 ELSE 0
    /\ call = "parse_xml_string" =>
         \A a \in Audited :
            WarnCount(log, a) = Cardinality({p \in Reached : has_attribute(GeomAt(p), a)})

\* C8 (amended): unsupported attributes leave the outcome as it is without
\* them.  When the geom parses, the records logged differ by exactly one
\* warning for each unsupported attribute present; when it fails,
\* parse_geom_node logs no warning for any of them and parse_geom logs the
\* one for class alone.
C8_OneWarningOnSuccess ==
    /\ GeomDone =>
         /\ GeomResult = parse_geom_node(Strip(node)).res
         /\ OtherRecords(log) = parse_geom_node(Strip(node)).log
         /\ \A a \in Audited :
               WarnCount(log, a) =
                  IF GeomResult.ok /\ has_attribute(node, a) THEN 1 ELSE 0
    /\ \A p \in Reached \ Failed : parse_geom(NewModel, Strip(GeomAt(p))).res.ok
    /\ \A p \in Failed : result = Some(parse_geom(NewModel, Strip(GeomAt(p))).res)
    /\ call = "parse_xml_string" =>
         \A a \in Audited :
            WarnCount(log, a) =
               Cardinality({p \in Reached \ Failed : has_attribute(GeomAt(p), a)})
                 + (IF a = "class"
                    THEN Cardinality({p \in Failed : has_attribute(GeomAt(p), a)})
                    ELSE 0)

C8_Witness ==
    /\ GeomDone
    /\ GeomResult.ok
    /\ \A a \in Audited : has_attribute(node, a)
    /\ Len(log) = Len(parse_geom_node(Strip(node)).log) + Cardinality(Audited)

\* a geom that fails while carrying unsupported attributes: nothing is logged for them
C8_FailedWitness ==
    /\ GeomDone
    /\ ~GeomResult.ok
    /\ has_attribute(node, "rgba")
    /\ WarnCount(log, "rgba") = 0

----------------------------------------------------------------------------
(* C9 *)

PositiveShape(sh) ==
    CASE sh.shape = "Ball" -> sh.radius > 0
      [] sh.shape = "Capsule" -> sh.radius > 0 /\ sh.half_length > 0
      [] sh.shape = "Cuboid" -> \A k \in 1..3 : sh.half_extents[k] > 0
      [] sh.shape = "Plane" -> TRUE

\* C9 (as claimed): every shape a successful geom parse returns has strictly
\* positive dimensions.
C9_PositiveDimensions ==
    (GeomDone /\ GeomResult.ok) => PositiveShape(GeomResult.val.shape)

----------------------------------------------------------------------------
(* C10 *)

\* how many geoms of the scene of the k-th parsed geom were parsed before it
ParsedBefore(k) == Cardinality({m \in 1..(k - 1) : names[m].scene = names[k].scene})

\* C10 (as claimed): a geom is named by its name attribute, or else by the
\* zero-based count of the geoms parsed before it in its scene, so two geoms
\* of one scene without a name attribute get different names.
C10_IndexedNames ==
    /\ \A k \in 1..Len(names) :
          names[k].name = IF IsSome(names[k].attr) THEN Unwrap(names[k].attr)
                          ELSE format_usize(ParsedBefore(k))
    /\ \A j, k \in 1..Len(names) :
          (j < k /\ names[j].scene = names[k].scene
             /\ names[j].attr = None /\ names[k].attr = None)
            => names[j].name # names[k].name

----------------------------------------------------------------------------
(* C11 *)

DocCall == call = "parse_xml_string"

DocDone == DocCall /\ pc = "done"

\* the text is XML and its root is mujoco: the traversal starts
Traversed == doc.wellformed /\ doc.root.tag = "mujoco"

Bodies == {r \in 1..Len(doc.root.children) : doc.root.children[r].tag = "worldbody"}

HasAttributes(e) == \E a \in AttrNames : has_attribute(e.attrs, a)

\* the places of the document in document order: <<r, 0>> is the worldbody
\* that is the r-th child of the root, <<r, c>> its c-th child
Places ==
    UNION {{<<r, c>> : c \in 0..Len(doc.root.children[r].children)} : r \in Bodies}

At(p) == IF p[2] = 0 THEN doc.root.children[p[1]]
         ELSE doc.root.children[p[1]].children[p[2]]

Before(p, q) == p[1] < q[1] \/ (p[1] = q[1] /\ p[2] < q[2])

InvalidTags == {"inertial", "joint", "freejoint"}

SkippedTags == {"body", "site", "camera", "light"}

\* the places that violate a rule of the traversal
Offends(p) ==
    IF p[2] = 0 THEN HasAttributes(At(p))
    ELSE \/ At(p).tag \in InvalidTags
         \/ At(p).tag = "geom" /\ TypeOf(At(p).attrs) \notin KnownGeomTypes

Offences == {p \in Places : Offends(p)}

FirstOffence == CHOOSE p \in Offences : \A q \in Offences : q = p \/ Before(p, q)

OffenceError(p) ==
    IF p[2] = 0 THEN WorldBodyHasAttributes
    ELSE IF At(p).tag \in InvalidTags THEN WorldBodyInvalidChildren
    ELSE InvalidGeomType(Unwrap(TypeOf(At(p).attrs)))

\* the place the traversal is at
Here == <<ri, ci>>

\* the places the traversal has examined
Examined == {p \in Places : p = Here \/ Before(p, Here)}

MsgCount(level, msg) ==
    Cardinality({k \in 1..Len(log) : log[k].level = level /\ log[k].msg = msg})

\* the diagnostics are those of the examined places and of no other
DiagnosticsOfExamined ==
    /\ MsgCount("debug", "Parsing worldbody tag")
         = Cardinality({p \in Examined : p[2] = 0})
    /\ MsgCount("debug", "Parsing geom tag")
         = Cardinality({p \in Examined : p[2] > 0 /\ At(p).tag = "geom"})
    /\ MsgCount("warn", "Ignorning unsupported tag")
         = Cardinality({p \in Examined :
                          /\ p[2] > 0
                          /\ At(p).tag \notin InvalidTags \cup SkippedTags \cup {"geom"}})

FirstViolationStops ==
    (DocDone /\ Traversed) =>
        /\ DiagnosticsOfExamined
        /\ IF Offences = {}
           THEN /\ Unwrap(result) = Ok(mjcf_model)
                /\ ri = Len(doc.root.children) + 1
           ELSE /\ Unwrap(result) = Err(OffenceError(FirstOffence))
                /\ Here = FirstOffence

\* one step of the traversal examines the next place or none
DocumentOrder ==
    DocCall =>
        /\ ri' \in {ri, ri + 1}
        /\ ri' = ri => ci' \in {ci, ci + 1}
        /\ ri' = ri + 1 => ci' = 0

\* C11: parse_xml_string examines the worldbodies of the root, and the
\* children of each, in document order, one place a step; it returns the
\* error of the first place that violates a rule (a worldbody with
\* attributes, an inertial/joint/freejoint child, a geom of an invalid type)
\* and stops there, so the log holds the diagnostics of the places up to that
\* one and of none after it and the result is the error alone; when no place
\* offends, whatever was skipped or diagnosed, it returns Ok with the model.
C11_FirstViolationStops == []FirstViolationStops /\ [][DocumentOrder]_vars

\* an error at the second of three children, after a diagnosed tag
C11_Witness ==
    /\ DocDone
    /\ ~Unwrap(result).ok
    /\ ci = 2
    /\ Len(doc.root.children[ri].children) = 3
    /\ MsgCount("warn", "Ignorning unsupported tag") = 1

\* a document whose tags are skipped and diagnosed parses
C11_DiagnosedWitness ==
    /\ DocDone
    /\ Unwrap(result).ok
    /\ MsgCount("warn", "Ignorning unsupported tag") = 2

----------------------------------------------------------------------------
(* C12 *)

\* the worldbodies of the root that carry an attribute
AttributedBodies == {r \in Bodies : HasAttributes(doc.root.children[r])}

\* C12 (as claimed): a document with root mujoco one of whose worldbodies
\* carries an attribute fails with WorldBodyHasAttributes, whatever else the
\* document holds.
C12_AlwaysWorldBodyHasAttributes ==
    (DocDone /\ Traversed /\ AttributedBodies # {}) =>
        Unwrap(result) = Err(WorldBodyHasAttributes)

\* C12 (amended): a document with root mujoco one of whose worldbodies
\* carries an attribute fails; when no worldbody before the first such one
\* offends (by an inertial, joint or freejoint child or a geom of an invalid
\* type) the error is WorldBodyHasAttributes and no child of that worldbody
\* has been examined, whatever its children are; otherwise the error is that
\* of the earlier worldbody.
C12_WorldBodyHasAttributesFirst ==
    (DocDone /\ Traversed /\ AttributedBodies # {}) =>
        /\ ~Unwrap(result).ok
        /\ \A r \in AttributedBodies :
              (\A p \in Offences : ~Before(p, <<r, 0>>)) =>
                  /\ Unwrap(result) = Err(WorldBodyHasAttributes)
                  /\ Here = <<r, 0>>
                  /\ \A p \in Examined : p[1] = r => p[2] = 0
        /\ Before(FirstOffence, <<ri + 1, 0>>)
        /\ Unwrap(result) = Err(OffenceError(FirstOffence))

\* a worldbody with an attribute and an offending child
C12_Witness ==
    /\ DocDone
    /\ Unwrap(result) = Err(WorldBodyHasAttributes)
    /\ Len(doc.root.children[ri].children) > 0
    /\ Offends(<<ri, 1>>)
    /\ MsgCount("debug", "Parsing geom tag") = 0

----------------------------------------------------------------------------
(* C13 *)

\* the inertial, joint and freejoint children of worldbodies without attributes
InvalidChildren ==
    {p \in Places : /\ p[2] > 0
                    /\ At(p).tag \in InvalidTags
                    /\ ~HasAttributes(doc.root.children[p[1]])}

\* a failure is never raised at a skipped or an unrecognized child
NeverFailsAtOtherTags ==
    (DocDone /\ Traversed /\ ~Unwrap(result).ok) =>
        (ci = 0 \/ At(Here).tag \in InvalidTags \cup {"geom"})

\* C13 (as claimed): a document with root mujoco in which a worldbody without
\* attributes has an inertial, joint or freejoint child fails with
\* WorldBodyInvalidChildren, whatever else the document holds; body, site,
\* camera, light and unrecognized children never cause a failure.
C13_AlwaysInvalidChildren ==
    /\ (DocDone /\ Traversed /\ InvalidChildren # {}) =>
          Unwrap(result) = Err(WorldBodyInvalidChildren)
    /\ NeverFailsAtOtherTags

\* C13 (amended): such a document fails; the error is
\* WorldBodyInvalidChildren when nothing before the first inertial, joint or
\* freejoint child offends (no worldbody with attributes and no geom of an
\* invalid type in an earlier place), and the error of the earlier place
\* otherwise; body, site, camera, light and unrecognized children never cause
\* a failure.
C13_InvalidChildrenFirst ==
    /\ (DocDone /\ Traversed /\ InvalidChildren # {}) =>
          /\ ~Unwrap(result).ok
          /\ \A p \in InvalidChildren :
                (\A q \in Offences : ~Before(q, p)) =>
                    /\ Unwrap(result) = Err(WorldBodyInvalidChildren)
                    /\ Here = p
          /\ Unwrap(result) = Err(OffenceError(FirstOffence))
    /\ NeverFailsAtOtherTags

\* an invalid child after a skipped one
C13_Witness ==
    /\ DocDone
    /\ Unwrap(result) = Err(WorldBodyInvalidChildren)
    /\ ci = 2
    /\ At(<<ri, 1>>).tag \in SkippedTags

----------------------------------------------------------------------------
(* C14 *)

\* the text is XML and its root is not mujoco
ForeignRoot == doc.wellformed /\ doc.root.tag # "mujoco"

\* C14 (as claimed): on a well-formed document whose root is not mujoco,
\* parse_xml_string, that of mjcf_model.rs and that of lib.rs alike, returns
\* the error MissingRequiredTag("mujoco") and does not panic, whatever the
\* attributes and the children of the root.
C14_MissingRequiredTag ==
    (call \in {"parse_xml_string", "lib_parse_xml_string"} /\ ForeignRoot) =>
        /\ pc # "panicked"
        /\ pc = "done" => Unwrap(result) = Err(MissingRequiredTag("mujoco"))

\* the parse_xml_string of mjcf_model.rs keeps the claim, and looks at
\* nothing below the root
C14_ModelMissingRequiredTag ==
    (DocCall /\ ForeignRoot) =>
        /\ pc \in {"start", "snapshot", "parse", "done"}
        /\ pc = "done" =>
              /\ Unwrap(result) = Err(MissingRequiredTag("mujoco"))
              /\ log = <<Debug("Parsing XML string")>>

C14_ModelWitness ==
    /\ DocDone
    /\ ForeignRoot
    /\ IsSome(doc.root.attrs.model)
    /\ \E r \in Bodies : HasAttributes(doc.root.children[r])
    /\ Unwrap(result) = Err(MissingRequiredTag("mujoco"))

----------------------------------------------------------------------------
(* C15 *)

----------------------------------------------------------------------------
(* C16 *)

IsPlane(n) == TypeOf(n) = Some("plane")

\* n without its orientation attributes
StripOrientation(n) == [a \in AttrNames |-> IF a \in Range(OrientAttrs) THEN None ELSE n[a]]

PlaneZ == [shape |-> "Plane", normal |-> <<0, 0, 2>>]

\* C16 (as claimed): on a plane the orientation attributes are never applied:
\* with any of them, whatever its text, parse_geom_node returns what it
\* returns without them, a success has the normal +Z and the identity
\* orientation, and no error is an orientation error.
C16_PlaneOrientationIgnored ==
    (GeomDone /\ IsPlane(node)) =>
        /\ GeomResult = parse_geom_node(StripOrientation(node)).res
        /\ GeomResult.ok =>
              /\ GeomResult.val.shape = PlaneZ
              /\ GeomResult.val.orientation = IdentityQuaternion
        /\ ~GeomResult.ok => GeomResult.err.kind # "BadOrientation"

\* what the code keeps of it: the shape of a plane is the plane of normal +Z
\* whatever its attributes, and its orientation is resolved as a sphere's is
C16_PlaneShapeFixed ==
    (GeomDone /\ IsPlane(node)) =>
        /\ GeomResult.ok => GeomResult.val.shape = PlaneZ
        /\ orientation(node) = orientation([node EXCEPT !["type"] = Some("sphere")])

\* a plane whose quat turns its pose, and a plane that a malformed quat fails
C16_AppliedWitness ==
    /\ GeomDone
    /\ IsPlane(node)
    /\ OrientCount(node) = 1
    /\ GeomResult.ok
    /\ GeomResult.val.orientation # IdentityQuaternion

C16_FailedWitness ==
    /\ GeomDone
    /\ IsPlane(node)
    /\ OrientCount(node) = 1
    /\ ~GeomResult.ok
    /\ GeomResult.err.kind = "BadOrientation"

----------------------------------------------------------------------------
(* C17 *)

\* what parse_xml_string returns on doc when no other thread runs: the
\* invariants of C11, C14 and C15 pin the result of the call alone to this
AloneResult ==
    IF ~doc.wellformed THEN Err(BadXML)
    ELSE IF doc.root.tag # "mujoco" THEN Err(MissingRequiredTag("mujoco"))
    ELSE IF Offences # {} THEN Err(OffenceError(FirstOffence))
    ELSE Ok([NewModel EXCEPT !.model_name = IF IsSome(doc.root.attrs.model)
                                              THEN Unwrap(doc.root.attrs.model)
                                              ELSE @])

PeerIds == DOMAIN peers

Setters == {p \in PeerIds : peers[p].op = "set_root_logger"}

\* the result of the followed parse is that of the parse alone
SameAsAlone == DocDone => Unwrap(result) = AloneResult

\* a parse holds the lock of LOG while it takes its logger and at no other
\* time; the write lock is held by a set_root_logger between its two steps
LockOnlyForSnapshot ==
    /\ Self \in LOG.readers <=> (DocCall /\ pc = "snapshot")
    /\ \A p \in PeerIds : p \in LOG.readers <=> IsPeer(p, "parse_xml_string", "snapshot")
    /\ \A p \in PeerIds : p \in LOG.writer <=> IsPeer(p, "set_root_logger", "write")
    /\ LOG.writer # {} => LOG.readers = {}
    /\ Cardinality(LOG.writer) <= 1

\* a parse that has taken its logger keeps it, whatever LOG holds by now
LoggerKept ==
    /\ pc \in {"parse", "root", "worldbody", "done"} => IsSome(logger)
    /\ IsSome(logger) => Unwrap(logger) \in {DefaultLogger} \cup Setters

AllReturned == pc = "done" /\ \A p \in PeerIds : peers[p].pc = "done"

\* C17: while other threads call parse_xml_string and set_root_logger, in
\* any interleaving, a parse returns what it returns alone on its text; it
\* holds the lock of LOG only between its read() and the end of the
\* statement that takes its logger, so a set_root_logger waits for no parse
\* that is past that statement; and every call returns.
C17_NoInterference ==
    /\ [](SameAsAlone /\ LockOnlyForSnapshot /\ LoggerKept)
    /\ <>AllReturned

\* a set_root_logger that started and returned while the followed parse,
\* holding the logger it took before, is inside a worldbody
C17_Witness ==
    /\ DocCall
    /\ pc = "worldbody"
    /\ logger = Some(DefaultLogger)
    /\ \E p \in Setters : peers[p].pc = "done" /\ LOG.value = p
    /\ LOG.readers = {} /\ LOG.writer = {}

\* a parse waiting at read() while a set_root_logger holds the write lock
C17_BlockedWitness ==
    /\ DocCall
    /\ pc = "start"
    /\ \E p \in Setters : LOG.writer = {p}

====
